---- MODULE Spec2Model ----
(***************************************************************************)
(* A model of the core of termimage-editor (src/lib.rs): the indexed-color *)
(* Buffer with its resize operations and bounds-checked accessors, the     *)
(* Cursor with its Mode, CSV export and the default Renderable::render.    *)
(*                                                                         *)
(* Every operation is a call on the current Buffer / Cursor value.  The    *)
(* variable `last` records the most recent call: its arguments, the Buffer *)
(* it was applied to and what it returned.  A call that panics (or aborts  *)
(* the process) ends the behaviour: no operation is enabled afterwards.    *)
(***************************************************************************)
EXTENDS Integers, Sequences, FiniteSets, TLC

\* Bounds of the model: the largest extent asked of a resize and the largest
\* number of cells a Buffer holds, and the largest low color index.
MaxWidth == 2
MaxHeight == 2
MaxColor == 1
MaxCells == 4

\* Color::BG_COLOR and Color::MAX.
BG_COLOR == 0
MAX == 255

\* The u8 values a Color takes in the model: the low indices and u8::MAX.
ColorValues == (0 .. MaxColor) \cup {MAX}

\* Position { x, y }, with coordinates that reach past the largest extent.
Positions == [x : 0 .. MaxWidth, y : 0 .. MaxHeight]

\* Option<char> of Mode::Draw.
Brushes == {"None", "Some"}

\* enum Mode.
Normal == [tag |-> "Normal"]
Selection == [tag |-> "Selection"]
Visual == [tag |-> "Visual"]
DrawMode(color, brush) == [tag |-> "Draw", color |-> color, brush |-> brush]
Modes == {Normal, Selection, Visual}
           \cup {DrawMode(c, b) : c \in ColorValues, b \in Brushes}

\* Colors([String; Color::MAX as usize]): the indices 0 .. 254 have a name.
PaletteA == [i \in 0 .. (MAX - 1) |->
               IF i = 0 THEN "black" ELSE IF i = 1 THEN "white" ELSE "other"]
PaletteB == [i \in 0 .. (MAX - 1) |->
               IF i = 0 THEN "white" ELSE IF i = 1 THEN "red" ELSE "blue"]
Palettes == <<PaletteA, PaletteB>>

VARIABLES buffer, cursor, last
vars == <<buffer, cursor, last>>

\* Buffer::default(): zero extent, no data.
DefaultBuffer == [max_position |-> [x |-> 0, y |-> 0], data |-> <<>>]

\* Cursor::default(): Position (0, 0), Mode::Normal.
DefaultCursor == [position |-> [x |-> 0, y |-> 0], mode |-> Normal]

\* The record of a call, before any call was made.
NoCall == [op |-> "none", res |-> "Ok", pos |-> [x |-> 0, y |-> 0],
           color |-> 0, width |-> 0, height |-> 0, pre |-> DefaultBuffer,
           mode |-> Normal, palette |-> 1, out |-> <<>>,
           visited |-> <<>>, writes |-> 0]

\* A panic or an abort of the process ended the program.
Running == last.res # "Panic"

----------------------------------------------------------------------------
(* Buffer *)

\* Buffer::get_index: row-major arithmetic, no range check.
get_index(buf, position) == position.y * buf.max_position.x + position.x

\* Buffer::get_color: Vec::get(index), None becomes the out-of-range error.
get_color(buf, position) ==
    LET index == get_index(buf, position) IN
    IF index < Len(buf.data)
    THEN [res |-> "Ok", color |-> buf.data[index + 1]]
    ELSE [res |-> "OutOfRange", color |-> 0]

\* set_color with the coordinates exchanged in the index.
set_color_transposed(buf, position, color) ==
    LET index == position.x * buf.max_position.x + position.y IN
    IF index < Len(buf.data)
    THEN [res |-> "Ok",
          buffer |-> [buf EXCEPT !.data = [buf.data EXCEPT ![index + 1] = color]]]
    ELSE [res |-> "OutOfRange", buffer |-> buf]

\* Buffer::set_color: Vec::get_mut(index), None becomes the error and
\* nothing is written.
set_color(buf, position, color) ==
    LET index == get_index(buf, position) IN
    IF index < Len(buf.data)
    THEN [res |-> "Ok",
          buffer |-> [buf EXCEPT !.data = [buf.data EXCEPT ![index + 1] = color]]]
    ELSE [res |-> "OutOfRange", buffer |-> buf]

\* `for _ in 0..n { push(BG_COLOR) }`.
Pad(n) == [i \in 1 .. n |-> BG_COLOR]

\* The inner loop of the resize operations: row y, cell by cell.  The
\* indexing self.data.0[index] panics past the end of the data.
RowInData(buf, y) ==
    \A x \in 0 .. (buf.max_position.x - 1) :
        y * buf.max_position.x + x < Len(buf.data)
CopyRow(buf, y) ==
    [i \in 1 .. buf.max_position.x |-> buf.data[y * buf.max_position.x + i]]

\* WidthRows without the padding loop.
RECURSIVE WidthRowsNoPad(_, _, _)
WidthRowsNoPad(buf, new_width, y) ==
    IF y >= buf.max_position.y THEN [res |-> "Ok", data |-> <<>>]
    ELSE IF ~RowInData(buf, y) THEN [res |-> "Panic", data |-> <<>>]
    ELSE IF new_width < buf.max_position.x THEN [res |-> "Panic", data |-> <<>>]
    ELSE LET rest == WidthRowsNoPad(buf, new_width, y + 1) IN
         IF rest.res # "Ok" THEN rest
         ELSE [res |-> "Ok", data |-> CopyRow(buf, y) \o rest.data]

\* The outer loop of new_width_buffer from row y on: the data pushed, or
\* "Panic".  With new_width below the width the subtraction underflows: the
\* checked build panics, the unchecked one pushes 2^64 - d cells and aborts
\* on allocation.
RECURSIVE WidthRows(_, _, _)
WidthRows(buf, new_width, y) ==
    IF y >= buf.max_position.y THEN [res |-> "Ok", data |-> <<>>]
    ELSE IF ~RowInData(buf, y) THEN [res |-> "Panic", data |-> <<>>]
    ELSE IF new_width < buf.max_position.x THEN [res |-> "Panic", data |-> <<>>]
    ELSE LET rest == WidthRows(buf, new_width, y + 1) IN
         IF rest.res # "Ok" THEN rest
         ELSE [res |-> "Ok",
               data |-> CopyRow(buf, y) \o Pad(new_width - buf.max_position.x)
                          \o rest.data]

\* Buffer::new_width_buffer: the set of outcomes of the call.
new_width_buffer(buf, new_width) ==
    LET rows == WidthRows(buf, new_width, 0) IN
    IF rows.res # "Ok" THEN {[res |-> "Panic", buffer |-> buf]}
    ELSE {[res |-> "Ok",
           buffer |-> [max_position |-> [x |-> new_width, y |-> buf.max_position.y],
                       data |-> rows.data]]}

\* The first loop of new_height_buffer from row y on.
RECURSIVE HeightRows(_, _)
HeightRows(buf, y) ==
    IF y >= buf.max_position.y THEN [res |-> "Ok", data |-> <<>>]
    ELSE IF ~RowInData(buf, y) THEN [res |-> "Panic", data |-> <<>>]
    ELSE LET rest == HeightRows(buf, y + 1) IN
         IF rest.res # "Ok" THEN rest
         ELSE [res |-> "Ok", data |-> CopyRow(buf, y) \o rest.data]

\* new_height_buffer whose padding loop lacks the inner loop over the width:
\* one cell for each new row.
new_height_buffer_cells(buf, new_height) ==
    LET rows == HeightRows(buf, 0)
        w == buf.max_position.x
        h == buf.max_position.y
        done(data) == [res |-> "Ok",
                       buffer |-> [max_position |-> [x |-> w, y |-> new_height],
                                   data |-> data]]
    IN
    IF rows.res # "Ok" THEN {[res |-> "Panic", buffer |-> buf]}
    ELSE IF new_height >= h
         THEN {done(rows.data \o Pad(new_height - h))}
    ELSE {[res |-> "Panic", buffer |-> buf]}

\* Buffer::new_height_buffer: the set of outcomes of the call.  With
\* new_height below the height the subtraction underflows: the checked build
\* panics; the unchecked one runs the padding loop 2^64 - d times, which
\* aborts on allocation when the width is positive and pushes nothing when
\* the width is zero.
new_height_buffer(buf, new_height) ==
    LET rows == HeightRows(buf, 0)
        w == buf.max_position.x
        h == buf.max_position.y
        done(data) == [res |-> "Ok",
                       buffer |-> [max_position |-> [x |-> w, y |-> new_height],
                                   data |-> data]]
    IN
    IF rows.res # "Ok" THEN {[res |-> "Panic", buffer |-> buf]}
    ELSE IF new_height >= h
         THEN {done(rows.data \o Pad((new_height - h) * w))}
    ELSE IF w > 0 THEN {[res |-> "Panic", buffer |-> buf]}
    ELSE {[res |-> "Panic", buffer |-> buf], done(rows.data)}

\* new_size_buffer with the two arguments handed to the wrong steps.
new_size_buffer_swapped(buf, new_width, new_height) ==
    UNION {IF r.res # "Ok" THEN {[res |-> "Panic", buffer |-> buf]}
           ELSE {[res |-> s.res,
                  buffer |-> IF s.res = "Ok" THEN s.buffer ELSE buf] :
                     s \in new_height_buffer(r.buffer, new_width)} :
              r \in new_width_buffer(buf, new_height)}

\* Buffer::new_size_buffer: the width step, then the height step.
new_size_buffer(buf, new_width, new_height) ==
    UNION {IF r.res # "Ok" THEN {[res |-> "Panic", buffer |-> buf]}
           ELSE {[res |-> s.res,
                  buffer |-> IF s.res = "Ok" THEN s.buffer ELSE buf] :
                     s \in new_height_buffer(r.buffer, new_height)} :
              r \in new_width_buffer(buf, new_width)}

----------------------------------------------------------------------------
(* CSV export *)

\* usize::to_string: the decimal digits, most significant first.
Digits == <<"0", "1", "2", "3", "4", "5", "6", "7", "8", "9">>
RECURSIVE to_string(_)
to_string(n) ==
    IF n < 10 THEN <<Digits[n + 1]>>
    ELSE to_string(n \div 10) \o <<Digits[(n % 10) + 1]>>

\* CsvRecords writing the fields y, x, name.
RECURSIVE CsvRecordsYX(_, _, _, _)
CsvRecordsYX(buf, colors, y, x) ==
    IF y >= buf.max_position.y THEN [res |-> "Ok", out |-> <<>>]
    ELSE IF x >= buf.max_position.x THEN CsvRecordsYX(buf, colors, y + 1, 0)
    ELSE LET index == y * buf.max_position.x + x IN
         IF index >= Len(buf.data) THEN [res |-> "Panic", out |-> <<>>]
         ELSE LET color == buf.data[index + 1] IN
              IF color \notin DOMAIN colors THEN [res |-> "Panic", out |-> <<>>]
              ELSE LET rest == CsvRecordsYX(buf, colors, y, x + 1) IN
                   IF rest.res # "Ok" THEN rest
                   ELSE [res |-> "Ok",
                         out |-> <<<<to_string(y), to_string(x), colors[color]>>>>
                                   \o rest.out]

\* The loops of to_csv from cell (x, y) on: the records written, each the
\* fields handed to write_record.  Both self.data.0[index] and
\* colors.0[color] are unchecked indexings, which panic out of bounds.
RECURSIVE CsvRecords(_, _, _, _)
CsvRecords(buf, colors, y, x) ==
    IF y >= buf.max_position.y THEN [res |-> "Ok", out |-> <<>>]
    ELSE IF x >= buf.max_position.x THEN CsvRecords(buf, colors, y + 1, 0)
    ELSE LET index == y * buf.max_position.x + x IN
         IF index >= Len(buf.data) THEN [res |-> "Panic", out |-> <<>>]
         ELSE LET color == buf.data[index + 1] IN
              IF color \notin DOMAIN colors THEN [res |-> "Panic", out |-> <<>>]
              ELSE LET rest == CsvRecords(buf, colors, y, x + 1) IN
                   IF rest.res # "Ok" THEN rest
                   ELSE [res |-> "Ok",
                         out |-> <<<<to_string(x), to_string(y), colors[color]>>>>
                                   \o rest.out]

\* Buffer::to_csv: the records of the text returned, or the panic.
to_csv(buf, colors) == CsvRecords(buf, colors, 0, 0)

----------------------------------------------------------------------------
(* Cursor *)

\* Cursor::new_position_cursor.
new_position_cursor(cur, new_position) ==
    [position |-> new_position, mode |-> cur.mode]

\* Cursor::new_mode_cursor.
new_mode_cursor(cur, new_mode) ==
    [position |-> cur.position, mode |-> new_mode]

\* draw that also accepts Selection mode, painting the background color.
draw_selection(cur, buf) ==
    IF cur.mode.tag = "Draw"
    THEN LET r == set_color(buf, cur.position, cur.mode.color) IN
         [res |-> r.res, buffer |-> r.buffer, mode |-> Normal]
    ELSE IF cur.mode.tag = "Selection"
    THEN LET r == set_color(buf, cur.position, BG_COLOR) IN
         [res |-> r.res, buffer |-> r.buffer, mode |-> Normal]
    ELSE [res |-> "NotDrawModeError", buffer |-> buf, mode |-> cur.mode]

\* Cursor::draw: set_color in Draw mode (its error propagates), otherwise
\* NotDrawModeError carrying a clone of the mode.
draw(cur, buf) ==
    IF cur.mode.tag = "Draw"
    THEN LET r == set_color(buf, cur.position, cur.mode.color) IN
         [res |-> r.res, buffer |-> r.buffer, mode |-> Normal]
    ELSE [res |-> "NotDrawModeError", buffer |-> buf, mode |-> cur.mode]

----------------------------------------------------------------------------
(* Renderable *)

\* Renderable::render, the default method, on a target whose size() returns
\* `size`.  The first cell of the scan is read with get_color, whose error
\* returns; after a successful read the body is unimplemented!(), a panic.
\* `visited` are the cells read and `writes` the number of cells written.
render(size, buf) ==
    IF size.y = 0 \/ size.x = 0
    THEN [res |-> "Ok", visited |-> <<>>, writes |-> 0]
    ELSE LET pos == [x |-> 0, y |-> 0]
             r == get_color(buf, pos)
         IN  IF r.res # "Ok"
             THEN [res |-> "OutOfRange", visited |-> <<pos>>, writes |-> 0]
             ELSE [res |-> "Panic", visited |-> <<pos>>, writes |-> 0]

----------------------------------------------------------------------------
(* Actions *)

Init ==
    /\ buffer = DefaultBuffer
    /\ cursor = DefaultCursor
    /\ last = NoCall

NewWidthBuffer ==
    /\ Running
    /\ \E new_width \in 0 .. MaxWidth :
       \E r \in new_width_buffer(buffer, new_width) :
          /\ new_width * buffer.max_position.y <= MaxCells
          /\ buffer' = r.buffer
          /\ last' = [NoCall EXCEPT !.op = "new_width_buffer", !.res = r.res,
                                    !.width = new_width, !.pre = buffer]
    /\ UNCHANGED cursor

NewHeightBuffer ==
    /\ Running
    /\ \E new_height \in 0 .. MaxHeight :
       \E r \in new_height_buffer(buffer, new_height) :
          /\ buffer.max_position.x * new_height <= MaxCells
          /\ buffer' = r.buffer
          /\ last' = [NoCall EXCEPT !.op = "new_height_buffer", !.res = r.res,
                                    !.height = new_height, !.pre = buffer]
    /\ UNCHANGED cursor

NewSizeBuffer ==
    /\ Running
    /\ \E new_width \in 0 .. MaxWidth, new_height \in 0 .. MaxHeight :
       \E r \in new_size_buffer(buffer, new_width, new_height) :
          /\ new_width * buffer.max_position.y <= MaxCells
          /\ new_width * new_height <= MaxCells
          /\ buffer' = r.buffer
          /\ last' = [NoCall EXCEPT !.op = "new_size_buffer", !.res = r.res,
                                    !.width = new_width, !.height = new_height,
                                    !.pre = buffer]
    /\ UNCHANGED cursor

SetColor ==
    /\ Running
    /\ \E position \in Positions, color \in ColorValues :
       LET r == set_color(buffer, position, color) IN
          /\ buffer' = r.buffer
          /\ last' = [NoCall EXCEPT !.op = "set_color", !.res = r.res,
                                    !.pos = position, !.color = color,
                                    !.pre = buffer]
    /\ UNCHANGED cursor

GetColor ==
    /\ Running
    /\ \E position \in Positions :
       LET r == get_color(buffer, position) IN
          last' = [NoCall EXCEPT !.op = "get_color", !.res = r.res,
                                 !.pos = position, !.color = r.color,
                                 !.pre = buffer]
    /\ UNCHANGED <<buffer, cursor>>

NewPositionCursor ==
    /\ Running
    /\ \E new_position \in Positions :
          /\ cursor' = new_position_cursor(cursor, new_position)
          /\ last' = [NoCall EXCEPT !.op = "new_position_cursor",
                                    !.pos = new_position, !.pre = buffer]
    /\ UNCHANGED buffer

NewModeCursor ==
    /\ Running
    /\ \E new_mode \in Modes :
          /\ cursor' = new_mode_cursor(cursor, new_mode)
          /\ last' = [NoCall EXCEPT !.op = "new_mode_cursor",
                                    !.mode = new_mode, !.pre = buffer]
    /\ UNCHANGED buffer

Draw ==
    /\ Running
    /\ LET r == draw(cursor, buffer) IN
          /\ buffer' = r.buffer
          /\ last' = [NoCall EXCEPT !.op = "draw", !.res = r.res,
                                    !.mode = r.mode, !.pre = buffer]
    /\ UNCHANGED cursor

ToCsv ==
    /\ Running
    /\ \E p \in DOMAIN Palettes :
       LET r == to_csv(buffer, Palettes[p]) IN
          last' = [NoCall EXCEPT !.op = "to_csv", !.res = r.res,
                                 !.palette = p, !.out = r.out, !.pre = buffer]
    /\ UNCHANGED <<buffer, cursor>>

Render ==
    /\ Running
    /\ \E size \in Positions :
       LET r == render(size, buffer) IN
          last' = [NoCall EXCEPT !.op = "render", !.res = r.res,
                                 !.pos = size, !.visited = r.visited,
                                 !.writes = r.writes, !.pre = buffer]
    /\ UNCHANGED <<buffer, cursor>>

\* The Buffer API: resizing, the accessors, CSV export and rendering.
Next ==
    \/ NewWidthBuffer
    \/ NewHeightBuffer
    \/ NewSizeBuffer
    \/ SetColor
    \/ GetColor
    \/ ToCsv
    \/ Render

Spec == Init /\ [][Next]_vars

\* Editing through the Cursor: the resize operations, the Cursor transitions
\* and draw.  Cells are written by draw alone, which calls set_color with the
\* Cursor's position and color, any Position and any Color.
NextCursor ==
    \/ NewWidthBuffer
    \/ NewHeightBuffer
    \/ NewSizeBuffer
    \/ NewPositionCursor
    \/ NewModeCursor
    \/ Draw

SpecCursor == Init /\ [][NextCursor]_vars

----------------------------------------------------------------------------
(* Properties *)

\* Position (x, y) lies inside the extent of buf.
InRange(buf, position) ==
    /\ position.x < buf.max_position.x
    /\ position.y < buf.max_position.y

\* The color of the cell (x, y) of buf, for a position inside the data.
Cell(buf, x, y) == buf.data[y * buf.max_position.x + x + 1]

\* The cells of an extent in row-major order: y outer, x inner.
ScanOrder(size) ==
    [i \in 1 .. (size.x * size.y) |->
        [x |-> (i - 1) % size.x, y |-> (i - 1) \div size.x]]

\* The 2x2 buffer [(0,0)=0, (1,0)=1, (0,1)=1, (1,1)=0].
Checkerboard == [max_position |-> [x |-> 2, y |-> 2], data |-> <<0, 1, 1, 0>>]

\* C1: get_color and set_color at a position with x >= width or y >= height
\* return the out-of-range error and leave the buffer as it was.
C1_OutOfRangeRejected ==
    (last.op \in {"get_color", "set_color"} /\ ~InRange(last.pre, last.pos))
        => (last.res = "OutOfRange" /\ buffer = last.pre)

\* C2: the length of the data is the product of the extent, in every state
\* reached by resizing, set_color and Cursor::draw.
C2_DataLength ==
    Len(buffer.data) = buffer.max_position.x * buffer.max_position.y

C2_Witness ==
    /\ last.op = "draw"
    /\ last.res = "Ok"
    /\ buffer.max_position = [x |-> 2, y |-> 1]
    /\ buffer.data = <<BG_COLOR, 1>>

\* C3: set_color at a position inside the extent succeeds, and get_color at
\* that position then returns the color written.
C3_SetThenGet ==
    (last.op = "set_color" /\ InRange(last.pre, last.pos))
        => /\ last.res = "Ok"
           /\ get_color(buffer, last.pos) = [res |-> "Ok", color |-> last.color]

C3_Witness ==
    /\ last.op = "set_color"
    /\ last.res = "Ok"
    /\ last.pre = Checkerboard
    /\ last.pos = [x |-> 1, y |-> 0]
    /\ last.color = MAX

\* C4: draw in Draw{color: c, ..} at a position inside the buffer succeeds
\* and leaves c in that cell; draw in any other mode fails with
\* NotDrawModeError carrying the current mode and leaves the buffer as it was.
C4_DrawGatedByMode ==
    last.op = "draw"
        => IF cursor.mode.tag = "Draw"
           THEN InRange(last.pre, cursor.position)
                   => /\ last.res = "Ok"
                      /\ get_color(buffer, cursor.position)
                            = [res |-> "Ok", color |-> cursor.mode.color]
           ELSE /\ last.res = "NotDrawModeError"
                /\ last.mode = cursor.mode
                /\ buffer = last.pre

C4_Witness ==
    /\ last.op = "draw"
    /\ cursor.mode = Selection
    /\ cursor.position = [x |-> 1, y |-> 1]
    /\ buffer = Checkerboard

\* C5: a buffer widened from w to w' > w and then narrowed back to w is the
\* original buffer: the narrowing completes, the extent is the original one
\* and every original cell keeps its color.
C5_WidenNarrowRoundTrip ==
    [][(/\ last.op = "new_width_buffer"
        /\ last.res = "Ok"
        /\ last.width > last.pre.max_position.x
        /\ last'.op = "new_width_buffer"
        /\ last'.pre = buffer
        /\ last'.width = last.pre.max_position.x)
         => /\ last'.res = "Ok"
            /\ buffer'.max_position = last.pre.max_position
            /\ \A x \in 0 .. (last.pre.max_position.x - 1),
                  y \in 0 .. (last.pre.max_position.y - 1) :
                  Cell(buffer', x, y) = Cell(last.pre, x, y)]_vars

\* C6: new_height_buffer(h + k), k >= 0, yields extent (w, h + k), the
\* original rows unchanged and the k new rows all BG_COLOR.
C6_HeightGrowth ==
    (last.op = "new_height_buffer" /\ last.height >= last.pre.max_position.y)
        => /\ last.res = "Ok"
           /\ buffer.max_position
                 = [x |-> last.pre.max_position.x, y |-> last.height]
           /\ Len(buffer.data) = last.pre.max_position.x * last.height
           /\ \A x \in 0 .. (last.pre.max_position.x - 1),
                 y \in 0 .. (last.height - 1) :
                 Cell(buffer, x, y) = IF y < last.pre.max_position.y
                                      THEN Cell(last.pre, x, y)
                                      ELSE BG_COLOR

C6_Witness ==
    /\ last.op = "new_height_buffer"
    /\ last.res = "Ok"
    /\ last.pre = [max_position |-> [x |-> 2, y |-> 1], data |-> <<1, MAX>>]
    /\ last.height = 2

\* C7: new_size_buffer(w', h') with w' >= w and h' >= h is new_width_buffer(w')
\* followed by new_height_buffer(h'): extent (w', h'), rows of w' cells, the
\* original cells unchanged and every other cell BG_COLOR.
C7_SizeGrowth ==
    (/\ last.op = "new_size_buffer"
     /\ last.width >= last.pre.max_position.x
     /\ last.height >= last.pre.max_position.y)
        => /\ last.res = "Ok"
           /\ buffer.max_position = [x |-> last.width, y |-> last.height]
           /\ Len(buffer.data) = last.width * last.height
           /\ \A x \in 0 .. (last.width - 1), y \in 0 .. (last.height - 1) :
                 Cell(buffer, x, y) = IF InRange(last.pre, [x |-> x, y |-> y])
                                      THEN Cell(last.pre, x, y)
                                      ELSE BG_COLOR
           /\ \E r \in new_width_buffer(last.pre, last.width) :
                 [res |-> "Ok", buffer |-> buffer]
                    \in new_height_buffer(r.buffer, last.height)

C7_Witness ==
    /\ last.op = "new_size_buffer"
    /\ last.res = "Ok"
    /\ last.pre = [max_position |-> [x |-> 1, y |-> 1], data |-> <<1>>]
    /\ last.width = 2
    /\ last.height = 2

\* C8: with a palette that has an entry for every color of the buffer,
\* to_csv writes one record for each cell in row-major order, the record of
\* cell (x, y) being x, y and the palette name of its color; the checkerboard
\* with black and white gives 0,0,black / 1,0,white / 0,1,white / 1,1,black.
C8_CsvRowMajor ==
    (/\ last.op = "to_csv"
     /\ \A i \in DOMAIN buffer.data : buffer.data[i] \in DOMAIN Palettes[last.palette])
        => /\ last.res = "Ok"
           /\ Len(last.out) = buffer.max_position.x * buffer.max_position.y
           /\ \A x \in 0 .. (buffer.max_position.x - 1),
                 y \in 0 .. (buffer.max_position.y - 1) :
                 last.out[y * buffer.max_position.x + x + 1]
                    = <<to_string(x), to_string(y),
                        Palettes[last.palette][Cell(buffer, x, y)]>>
           /\ (buffer = Checkerboard /\ last.palette = 1)
                 => last.out = << <<"0", "0", "black">>, <<"1", "0", "white">>,
                                  <<"0", "1", "white">>, <<"1", "1", "black">> >>

C8_Witness ==
    /\ last.op = "to_csv"
    /\ last.res = "Ok"
    /\ buffer = Checkerboard
    /\ last.palette = 1

\* C9: to_csv of a buffer holding a color without a palette entry returns a
\* serialization error and no text; it does not panic.
C9_CsvMissingEntryIsError ==
    (/\ last.op = "to_csv"
     /\ \E i \in DOMAIN buffer.data : buffer.data[i] \notin DOMAIN Palettes[last.palette])
        => /\ last.res = "SerializationError"
           /\ last.out = <<>>

\* C10: render on a target whose size() is the buffer's extent completes,
\* visits every cell once in row-major order and writes once for each cell.
C10_RenderVisitsEveryCell ==
    (last.op = "render" /\ last.pos = buffer.max_position)
        => /\ last.res = "Ok"
           /\ last.visited = ScanOrder(buffer.max_position)
           /\ last.writes = buffer.max_position.x * buffer.max_position.y

====
